---- MODULE Spec2Model ----
(***************************************************************************)
(* D2L quiz/exam CSV exporter (src/main.py): the question-block parser     *)
(* parse_questions and the Streamlit submit handler that uses it.          *)
(*                                                                         *)
(* A Python str is modelled as a sequence of one-character strings, so     *)
(* that split, strip, lower/upper and the regular expressions are computed *)
(* character by character as the interpreter computes them.                *)
(***************************************************************************)
EXTENDS Integers, Sequences, FiniteSets, TLC

VARIABLES raw_text, page, blocks, all_qs, error_blocks, valid_qs, rows, trigger

vars == <<raw_text, page, blocks, all_qs, error_blocks, valid_qs, rows, trigger>>

(***************************************************************************)
(* Bounds of the model.                                                    *)
(***************************************************************************)
\* lines of a free-form uploaded text
MaxLines == 4
\* lines between the first line and the answer line of a one-block text
MaxBody == 2
\* blocks of a text made of whole blocks
MaxBlocks == 3

(***************************************************************************)
(* Characters and the str methods the parser uses.                         *)
(***************************************************************************)
NL == "\n"

\* str.strip() and \s: the whitespace characters
Whitespace == {" ", "\t", "\n", "\r", "\f"}

\* \d
Digits == {"0", "1", "2", "3", "4", "5", "6", "7", "8", "9"}

\* [\.\)\-]
Delimiters == {".", ")", "-"}

\* [A-Da-d]
ChoiceLetters == {"A", "B", "C", "D", "a", "b", "c", "d"}

LowerLetters ==
  <<"a", "b", "c", "d", "e", "f", "g", "h", "i", "j", "k", "l", "m",
    "n", "o", "p", "q", "r", "s", "t", "u", "v", "w", "x", "y", "z">>

UpperLetters ==
  <<"A", "B", "C", "D", "E", "F", "G", "H", "I", "J", "K", "L", "M",
    "N", "O", "P", "Q", "R", "S", "T", "U", "V", "W", "X", "Y", "Z">>

LowerChar(c) ==
  IF \E k \in 1..26 : UpperLetters[k] = c
    THEN LowerLetters[CHOOSE k \in 1..26 : UpperLetters[k] = c]
    ELSE c

UpperChar(c) ==
  IF \E k \in 1..26 : LowerLetters[k] = c
    THEN UpperLetters[CHOOSE k \in 1..26 : LowerLetters[k] = c]
    ELSE c

\* str.lower()
Lower(s) == [k \in 1..Len(s) |-> LowerChar(s[k])]

\* str.upper()
Upper(s) == [k \in 1..Len(s) |-> UpperChar(s[k])]

\* str.strip(): drop leading and trailing whitespace
Strip(s) ==
  LET keep == {k \in 1..Len(s) : s[k] \notin Whitespace}
  IN  IF keep = {} THEN <<>>
      ELSE LET lo == CHOOSE k \in keep : \A j \in keep : k <= j
               hi == CHOOSE k \in keep : \A j \in keep : k >= j
           IN  SubSeq(s, lo, hi)

\* str.startswith(prefix)
StartsWith(s, prefix) ==
  /\ Len(s) >= Len(prefix)
  /\ SubSeq(s, 1, Len(prefix)) = prefix

\* positions where sep occurs in s
Occurrences(s, sep) ==
  {k \in 1..(Len(s) - Len(sep) + 1) : SubSeq(s, k, k + Len(sep) - 1) = sep}

RECURSIVE Split(_, _)
\* str.split(sep): cut at the leftmost occurrences of sep, left to right
Split(s, sep) ==
  LET occ == Occurrences(s, sep)
  IN  IF occ = {} THEN <<s>>
      ELSE LET k == CHOOSE x \in occ : \A y \in occ : x <= y
           IN  <<SubSeq(s, 1, k - 1)>> \o Split(SubSeq(s, k + Len(sep), Len(s)), sep)

\* str.split(sep, 1)[1]: what follows the first occurrence of sep
AfterFirst(s, sep) ==
  LET occ == Occurrences(s, sep)
      k == CHOOSE x \in occ : \A y \in occ : x <= y
  IN  SubSeq(s, k + Len(sep), Len(s))

RECURSIVE Join(_, _)
\* sep.join(parts)
Join(parts, sep) ==
  IF parts = <<>> THEN <<>>
  ELSE IF Len(parts) = 1 THEN parts[1]
  ELSE parts[1] \o sep \o Join(Tail(parts), sep)

(***************************************************************************)
(* parse_questions.                                                        *)
(***************************************************************************)
\* the result of re.match: None, or a match object with its group(1)
NoMatch == [matched |-> FALSE, group1 |-> <<>>]
Match(g) == [matched |-> TRUE, group1 |-> g]

\* the empty Points cell "" of a stem row
NoScore == -1

\* a variant of QuestionMatch that accepts only '.' after the number
QuestionMatch_DotOnly(line) ==
  LET nd == Cardinality({k \in 1..Len(line) : \A j \in 1..k : line[j] \in Digits})
      rest == SubSeq(line, nd + 2, Len(line))
      ws == Cardinality({k \in 1..Len(rest) : \A j \in 1..k : rest[j] \in Whitespace})
  IN  IF /\ nd >= 1
         /\ Len(line) >= nd + 2
         /\ line[nd + 1] = "."
         /\ Len(rest) >= 1
        THEN IF ws < Len(rest) THEN Match(SubSeq(rest, ws + 1, Len(rest)))
             ELSE Match(SubSeq(rest, Len(rest), Len(rest)))
        ELSE NoMatch

\* re.match(r"^\d+[\.\)\-]\s*(.+)", line).
\* \d+ is greedy and a digit is no delimiter, so the digits are the whole
\* leading run; \s* is greedy but gives one character back when nothing is
\* left for (.+).
QuestionMatch(line) ==
  LET nd == Cardinality({k \in 1..Len(line) : \A j \in 1..k : line[j] \in Digits})
      rest == SubSeq(line, nd + 2, Len(line))
      ws == Cardinality({k \in 1..Len(rest) : \A j \in 1..k : rest[j] \in Whitespace})
  IN  IF /\ nd >= 1
         /\ Len(line) >= nd + 2
         /\ line[nd + 1] \in Delimiters
         /\ \A k \in 1..Len(rest) : rest[k] # NL
         /\ Len(rest) >= 1
        THEN IF ws < Len(rest) THEN Match(SubSeq(rest, ws + 1, Len(rest)))
             ELSE Match(SubSeq(rest, Len(rest), Len(rest)))
        ELSE NoMatch

\* a variant of ChoiceMatch that does not ask for the delimiter
ChoiceMatch_LetterOnly(l) ==
  /\ Len(l) >= 1
  /\ l[1] \in ChoiceLetters

\* re.match(r"^[A-Da-d][\.\)\-]", l)
ChoiceMatch(l) ==
  /\ Len(l) >= 2
  /\ l[1] \in ChoiceLetters
  /\ l[2] \in Delimiters

AnswerPrefix == <<"a", "n", "s", "w", "e", "r", ":">>

\* a variant of IsAnswerLine without lower()
IsAnswerLine_CaseSensitive(l) == StartsWith(l, AnswerPrefix)

\* l.lower().startswith("answer:")
IsAnswerLine(l) == StartsWith(Lower(l), AnswerPrefix)

\* next((l for l in lines if ...), None): the first answer line, <<>> for None
AnswerLine(lines) ==
  LET hits == {k \in 1..Len(lines) : IsAnswerLine(lines[k])}
  IN  IF hits = {} THEN <<>>
      ELSE lines[CHOOSE k \in hits : \A j \in hits : k <= j]

RECURSIVE ChoicesFrom(_, _)
\* [l.strip() for l in lines[1:] if re.match(choice pattern, l)], from index k
ChoicesFrom(lines, k) ==
  IF k > Len(lines) THEN <<>>
  ELSE IF ChoiceMatch(lines[k])
    THEN <<Strip(lines[k])>> \o ChoicesFrom(lines, k + 1)
    ELSE ChoicesFrom(lines, k + 1)

\* a variant of Choices that reads lines[2:]
Choices_SkipLine(lines) == ChoicesFrom(lines, 3)

\* lines[1:] filtered by the choice pattern
Choices(lines) == ChoicesFrom(lines, 2)

Row(question, score, answer) == [question |-> question, score |-> score, answer |-> answer]

\* a variant of Score without upper() on the label
Score_NoUpper(choice, correct_letter) ==
  IF <<choice[1]>> = correct_letter THEN 100 ELSE 0

\* score = 100 if label == correct_letter else 0, label = choice[0].upper()
Score(choice, correct_letter) ==
  IF <<UpperChar(choice[1])>> = correct_letter THEN 100 ELSE 0

\* a variant of ChoiceRows that labels the choices A, B, C, ... by position
ChoiceRows_Positional(question, choices, answer_val) ==
  <<Row(question, NoScore, <<>>)>>
    \o [k \in 1..Len(choices) |->
          Row(<<>>, IF <<UpperLetters[k]>> = Upper(answer_val) THEN 100 ELSE 0, choices[k])]

\* the rows of one question with choices
ChoiceRows(question, choices, answer_val) ==
  <<Row(question, NoScore, <<>>)>>
    \o [k \in 1..Len(choices) |-> Row(<<>>, Score(choices[k], Upper(answer_val)), choices[k])]

\* the rows of a fill-in-the-blank question
FillInRows(question, answer_val) ==
  <<Row(question, NoScore, <<>>), Row(<<>>, 100, answer_val)>>

\* an entry of questions: a list of rows, or a (reason, block) tuple
RowGroup(q_rows) == [kind |-> "list", reason |-> "", block |-> <<>>, rows |-> q_rows]
ErrorEntry(reason, block) == [kind |-> "tuple", reason |-> reason, block |-> block, rows |-> <<>>]

InvalidFormat == "Invalid question format"
MissingAnswer == "Missing answer line"

\* blocks = [b.strip() for b in raw_text.split("\n\n") if b.strip()]
Blocks(text) ==
  LET segs == Split(text, <<NL, NL>>)
      idx == SelectSeq([k \in 1..Len(segs) |-> k], LAMBDA k : Strip(segs[k]) # <<>>)
  IN  [k \in 1..Len(idx) |-> Strip(segs[idx[k]])]

\* one iteration of the for loop: questions after the block was processed
LoopBody(block, questions) ==
  LET lines == Split(block, <<NL>>)
      q_match == QuestionMatch(lines[1])
      question == Strip(q_match.group1)
      answer_line == AnswerLine(lines)
      answer_val == Strip(AfterFirst(answer_line, <<":">>))
      choices == Choices(lines)
  IN  IF Len(lines) = 0 THEN questions
      ELSE IF ~q_match.matched
        THEN Append(questions, ErrorEntry(InvalidFormat, block))
      ELSE IF answer_line = <<>>
        THEN Append(questions, ErrorEntry(MissingAnswer, block))
      ELSE IF choices # <<>>
        THEN Append(questions, RowGroup(ChoiceRows(question, choices, answer_val)))
      ELSE Append(questions, RowGroup(FillInRows(question, answer_val)))

RECURSIVE ParseLoop_Break(_, _, _)
\* a variant of ParseLoop that leaves the loop at the first error record
ParseLoop_Break(bs, i, questions) ==
  IF i > Len(bs) THEN questions
  ELSE LET next == LoopBody(bs[i], questions)
       IN  IF next # questions /\ next[Len(next)].kind = "tuple"
             THEN next
             ELSE ParseLoop_Break(bs, i + 1, next)

RECURSIVE ParseLoop(_, _, _)
\* for i, block in enumerate(blocks): ...
ParseLoop(bs, i, questions) ==
  IF i > Len(bs) THEN questions
  ELSE ParseLoop(bs, i + 1, LoopBody(bs[i], questions))

parse_questions(text) == ParseLoop(Blocks(text), 1, <<>>)

(***************************************************************************)
(* The page script.  Streamlit runs the script top to bottom once per user *)
(* interaction; st.button returns True only in the run that the click on   *)
(* that very button started, and the script keeps nothing between runs     *)
(* (no st.session_state).                                                  *)
(***************************************************************************)
NoTrigger == [widget |-> "none", index |-> 0, text |-> <<>>]
SubmitClick == [widget |-> "submit", index |-> 0, text |-> <<>>]
FixClick(i, t) == [widget |-> "fix", index |-> i, text |-> t]

\* st.button("Submit and Process File")
SubmitButton(trig) == trig.widget = "submit"

\* st.button(f"Re-parse Block {i+1}", key=f"fix_{i}")
FixButton(trig, i) == trig.widget = "fix" /\ trig.index = i

\* st.text_area(f"Fix Block {i+1}", value=block): the typed text, else the block
TextArea(trig, i, block) ==
  IF trig.widget = "fix" /\ trig.index = i THEN trig.text ELSE block

\* [q for q in qs if isinstance(q, list)]
ListsOf(qs) == SelectSeq(qs, LAMBDA q : q.kind = "list")

\* [q[1] for q in all_qs if isinstance(q, tuple)]
ErrorBlocksOf(qs) ==
  LET errs == SelectSeq(qs, LAMBDA q : q.kind = "tuple")
  IN  [k \in 1..Len(errs) |-> errs[k].block]

RECURSIVE Flatten(_)
\* [row for group in valid_qs for row in group]
Flatten(groups) ==
  IF groups = <<>> THEN <<>>
  ELSE groups[1].rows \o Flatten(Tail(groups))

RECURSIVE FixLoop(_, _, _, _)
\* for i, block in enumerate(error_blocks): ... valid_qs.extend(...)
FixLoop(trig, errs, i, valid) ==
  IF i > Len(errs) THEN valid
  ELSE LET new_text == TextArea(trig, i, errs[i])
           re_result == parse_questions(new_text)
       IN  IF FixButton(trig, i) /\ ListsOf(re_result) # <<>>
             THEN FixLoop(trig, errs, i + 1, valid \o ListsOf(re_result))
             ELSE FixLoop(trig, errs, i + 1, valid)

\* what one run of the script leaves on the page
Cleared(trig) ==
  [page |-> "preview", blocks |-> <<>>, all_qs |-> <<>>, error_blocks |-> <<>>,
   valid_qs |-> <<>>, rows |-> <<>>]

SubmitHandler(trig, text) ==
  LET qs == parse_questions(text)
      errs == ErrorBlocksOf(qs)
      valid == FixLoop(trig, errs, 1, ListsOf(qs))
  IN  [page |-> "results", blocks |-> Blocks(text), all_qs |-> qs,
       error_blocks |-> errs, valid_qs |-> valid,
       rows |-> IF valid # <<>> THEN Flatten(valid) ELSE <<>>]

\* One run of the script.  A run started by a "Re-parse Block" click has the
\* Submit button False and skips the handler; a run started by Submit has
\* every "Re-parse Block" button False.
ScriptRun(trig, text) ==
  IF SubmitButton(trig) THEN SubmitHandler(trig, text) ELSE Cleared(trig)

(***************************************************************************)
(* Uploaded texts.                                                         *)
(***************************************************************************)
\* lines of a free-form text: "", " ", "1.Q", "Q", "A)x", "Answer:A"
TextPool ==
  { <<>>, <<" ">>, <<"1", ".", "Q">>, <<"Q">>, <<"A", ")", "x">>,
    <<"A", "n", "s", "w", "e", "r", ":", "A">> }

\* first lines: "1.Q", "2) Q", "12-Q", "Q", "1. "
FirstPool ==
  { <<"1", ".", "Q">>, <<"2", ")", " ", "Q">>, <<"1", "2", "-", "Q">>, <<"Q">>,
    <<"1", ".", " ">> }

\* body lines: "A)x", "B)y", "b.z", " C)w", "True", "False", "A) True", "B) False"
BodyPool ==
  { <<"A", ")", "x">>, <<"B", ")", "y">>, <<"b", ".", "z">>, <<" ", "C", ")", "w">>,
    <<"T", "r", "u", "e">>, <<"F", "a", "l", "s", "e">>,
    <<"A", ")", " ", "T", "r", "u", "e">>, <<"B", ")", " ", "F", "a", "l", "s", "e">> }

\* last lines: "Answer:A", "answer: b", "ANSWER:", "Answer C", "Answer:D",
\* "Answer: True"
AnswerPool ==
  { <<"A", "n", "s", "w", "e", "r", ":", "A">>,
    <<"a", "n", "s", "w", "e", "r", ":", " ", "b">>,
    <<"A", "N", "S", "W", "E", "R", ":">>,
    <<"A", "n", "s", "w", "e", "r", " ", "C">>,
    <<"A", "n", "s", "w", "e", "r", ":", "D">>,
    <<"A", "n", "s", "w", "e", "r", ":", " ", "T", "r", "u", "e">> }

SeqsUpTo(S, n) == UNION {[1..k -> S] : k \in 0..n}

FreeTexts == {Join(ls, <<NL>>) : ls \in SeqsUpTo(TextPool, MaxLines)}

OneBlockTexts ==
  {Join(<<f>> \o body \o tail, <<NL>>) :
     f \in FirstPool, body \in SeqsUpTo(BodyPool, MaxBody),
     tail \in {<<>>} \cup {<<a>> : a \in AnswerPool}}

\* whole blocks: "Q", "1.Q", "1.Q\nAnswer:A", "1.Q\nA)x\nB)y\nanswer: b"
BlockPool ==
  { <<"Q">>, <<"1", ".", "Q">>,
    <<"1", ".", "Q", "\n", "A", "n", "s", "w", "e", "r", ":", "A">>,
    <<"1", ".", "Q", "\n", "A", ")", "x", "\n", "B", ")", "y", "\n",
      "a", "n", "s", "w", "e", "r", ":", " ", "b">> }

BlockTexts == {Join(bs, <<NL, NL>>) : bs \in SeqsUpTo(BlockPool, MaxBlocks)}

\* what the user may type into a "Fix Block" text area: "1.Q\nAnswer:A", "Q"
FixTexts ==
  { <<"1", ".", "Q", "\n", "A", "n", "s", "w", "e", "r", ":", "A">>, <<"Q">> }

(***************************************************************************)
(* The state machine: one action per user interaction, each a whole run of *)
(* the script.                                                             *)
(***************************************************************************)
Show(trig, r) ==
  /\ page' = r.page
  /\ blocks' = r.blocks
  /\ all_qs' = r.all_qs
  /\ error_blocks' = r.error_blocks
  /\ valid_qs' = r.valid_qs
  /\ rows' = r.rows
  /\ trigger' = trig
  /\ UNCHANGED raw_text

Init ==
  /\ raw_text \in FreeTexts \cup OneBlockTexts \cup BlockTexts
  /\ page = "preview"
  /\ blocks = <<>>
  /\ all_qs = <<>>
  /\ error_blocks = <<>>
  /\ valid_qs = <<>>
  /\ rows = <<>>
  /\ trigger = NoTrigger

\* the user presses "Submit and Process File"
Submit == Show(SubmitClick, ScriptRun(SubmitClick, raw_text))

\* the user types t into the text area of error block i and presses its
\* "Re-parse Block" button
Reparse ==
  /\ page = "results"
  /\ \E i \in 1..Len(error_blocks) :
       \E t \in FixTexts \cup {error_blocks[i]} :
         Show(FixClick(i, t), ScriptRun(FixClick(i, t), raw_text))

Next == Submit \/ Reparse

Spec == Init /\ [][Next]_vars

(***************************************************************************)
(* What the claims speak about, stated on the text of a block without the  *)
(* parser's own operators.                                                 *)
(***************************************************************************)
LinesOf(b) == Split(b, <<NL>>)

\* digits, then '.', ')' or '-', then at least one more character
IsNumbered(l) ==
  \E n \in 1..(Len(l) - 2) :
    /\ \A j \in 1..n : l[j] \in Digits
    /\ l[n + 1] \in Delimiters

\* the text after the number and its delimiter, trimmed
StemOf(l) ==
  LET n == CHOOSE n \in 1..(Len(l) - 2) :
             (\A j \in 1..n : l[j] \in Digits) /\ l[n + 1] \in Delimiters
  IN  Strip(SubSeq(l, n + 2, Len(l)))

\* a line that starts, in any case, with "answer:"
HasMarker(l) ==
  /\ Len(l) >= 7
  /\ Lower(SubSeq(l, 1, 6)) = <<"a", "n", "s", "w", "e", "r">>
  /\ l[7] = ":"

\* a line that starts, in any case, with "answer" and ':' or whitespace
HasLooseMarker(l) ==
  /\ Len(l) >= 7
  /\ Lower(SubSeq(l, 1, 6)) = <<"a", "n", "s", "w", "e", "r">>
  /\ l[7] \in {":"} \cup Whitespace

MarkerIdx(lines) == {j \in 1..Len(lines) : HasMarker(lines[j])}

\* the trimmed text after the marker of the first "answer:" line
ValueOf(lines) ==
  LET j == CHOOSE j \in MarkerIdx(lines) : \A i \in MarkerIdx(lines) : j <= i
  IN  Strip(SubSeq(lines[j], 8, Len(lines[j])))

\* the lines after the first that start with a letter A-D or a-d and a delimiter
LetteredIdx(lines) ==
  {j \in 2..Len(lines) :
     /\ Len(lines[j]) >= 2
     /\ lines[j][1] \in ChoiceLetters
     /\ lines[j][2] \in Delimiters}

\* the n-th smallest element of a set of numbers
Nth(S, n) == CHOOSE x \in S : Cardinality({y \in S : y < x}) = n - 1

\* the choice rows of a row group that carry score 100
Hundreds(q_rows) == {r \in 2..Len(q_rows) : q_rows[r].score = 100}

\* the number of rows the entries before entry k contribute
RECURSIVE RowsBefore(_, _)
RowsBefore(qs, k) ==
  IF k <= 1 THEN 0 ELSE RowsBefore(qs, k - 1) + Len(qs[k - 1].rows)

Shown == page = "results"

\* C1: every segmented block gets exactly one entry, in block order, a row
\* group or an error record according to the block alone; the rows of every
\* row group are exported, in order, whatever the number of error records.
C1_EveryBlockProcessed ==
  Shown =>
    /\ Len(all_qs) = Len(blocks)
    /\ \A k \in 1..Len(all_qs) :
         LET lines == LinesOf(blocks[k])
             good == IsNumbered(lines[1]) /\ MarkerIdx(lines) # {}
         IN  /\ all_qs[k].kind \in {"list", "tuple"}
             /\ all_qs[k].kind = "list" <=> good
             /\ all_qs[k].kind = "tuple" => all_qs[k].block = blocks[k]
             /\ all_qs[k].kind = "list" =>
                  /\ all_qs[k].rows # <<>>
                  /\ SubSeq(rows, RowsBefore(all_qs, k) + 1,
                            RowsBefore(all_qs, k) + Len(all_qs[k].rows)) = all_qs[k].rows
    /\ Len(rows) = RowsBefore(all_qs, Len(all_qs) + 1)

\* C1 witness: a row group after two error records, its rows exported
C1_Witness ==
  /\ Shown
  /\ Len(all_qs) = 3
  /\ all_qs[1].kind = "tuple"
  /\ all_qs[2].kind = "tuple"
  /\ all_qs[3].kind = "list"
  /\ rows = all_qs[3].rows

C3_Original ==
  Shown =>
    \A k \in 1..Len(all_qs) :
      LET lines == LinesOf(blocks[k])
      IN  ( /\ Cardinality({j \in 1..Len(lines) : Strip(lines[j]) # <<>>}) >= 3
            /\ MarkerIdx(lines) # {} ) =>
            /\ all_qs[k].kind = "list"
            /\ Len(all_qs[k].rows) = 1 + Cardinality(LetteredIdx(lines))

\* C3 (amended): every block with a numbered first line and an "answer:" line
\* is a row group; it has 1 + choice-count rows when it has choice lines and
\* 2 rows (stem and answer) when it has none.  A block whose first line is
\* not numbered is an error record, however many lines it has.
C3_RowCount ==
  Shown =>
    \A k \in 1..Len(all_qs) :
      LET lines == LinesOf(blocks[k])
          n == Cardinality(LetteredIdx(lines))
      IN  /\ (IsNumbered(lines[1]) /\ MarkerIdx(lines) # {}) =>
               /\ all_qs[k].kind = "list"
               /\ Len(all_qs[k].rows) = IF n > 0 THEN 1 + n ELSE 2
          /\ ~IsNumbered(lines[1]) => all_qs[k].kind = "tuple"

\* C3 witness: a block of four lines with two choices gives three rows
C3_Witness ==
  /\ Shown
  /\ \E k \in 1..Len(all_qs) :
       /\ Len(LinesOf(blocks[k])) = 4
       /\ Cardinality(LetteredIdx(LinesOf(blocks[k]))) = 2
       /\ all_qs[k].kind = "list"
       /\ Len(all_qs[k].rows) = 3

\* the text of a choice line: without its letter prefix, trimmed, lower-cased
ChoiceText(l) ==
  IF Len(l) >= 2 /\ l[1] \in ChoiceLetters /\ l[2] \in Delimiters
    THEN Lower(Strip(SubSeq(l, 3, Len(l))))
    ELSE Lower(Strip(l))

TrueFalseTexts == {<<"t", "r", "u", "e">>, <<"f", "a", "l", "s", "e">>}

\* C4 (as claimed): a numbered block whose two choices read true and false,
\* in either order, gives one row per choice, 100 on the choice the answer
\* value names (by its position letter or by its text) and 0 on the other.
C4_Original ==
  Shown =>
    \A k \in 1..Len(all_qs) :
      LET lines == LinesOf(blocks[k])
      IN  ( /\ Len(lines) = 4
            /\ IsNumbered(lines[1])
            /\ HasMarker(lines[4])
            /\ {ChoiceText(lines[2]), ChoiceText(lines[3])} = TrueFalseTexts ) =>
            /\ all_qs[k].kind = "list"
            /\ Len(all_qs[k].rows) = 3
            /\ \A j \in 1..2 :
                 all_qs[k].rows[1 + j].score =
                   IF \/ Upper(ValueOf(lines)) = <<UpperLetters[j]>>
                      \/ Lower(ValueOf(lines)) = ChoiceText(lines[1 + j])
                     THEN 100 ELSE 0

\* C4 (amended): a numbered block with an "answer:" line whose only two
\* choice lines (lines written with a letter A-D and a delimiter) read true
\* and false, in either order, gives the stem row and one row per choice;
\* each choice scores 100 exactly when its written letter equals the answer
\* value, else 0.  True/False lines written without a letter are no choices:
\* such a block gives the stem row and one answer row.
C4_TrueFalse ==
  Shown =>
    \A k \in 1..Len(all_qs) :
      LET lines == LinesOf(blocks[k])
          L == LetteredIdx(lines)
          plain == {j \in 2..Len(lines) : Lower(Strip(lines[j])) \in TrueFalseTexts}
      IN  (IsNumbered(lines[1]) /\ MarkerIdx(lines) # {}) =>
            /\ ( /\ Cardinality(L) = 2
                 /\ {ChoiceText(lines[j]) : j \in L} = TrueFalseTexts ) =>
                 /\ all_qs[k].kind = "list"
                 /\ Len(all_qs[k].rows) = 3
                 /\ \A j \in 1..2 :
                      /\ all_qs[k].rows[1 + j].answer = Strip(lines[Nth(L, j)])
                      /\ all_qs[k].rows[1 + j].score =
                           IF <<UpperChar(lines[Nth(L, j)][1])>> = Upper(ValueOf(lines))
                             THEN 100 ELSE 0
            /\ (L = {} /\ Cardinality(plain) = 2) =>
                 /\ all_qs[k].kind = "list"
                 /\ Len(all_qs[k].rows) = 2
                 /\ all_qs[k].rows[2] = Row(<<>>, 100, ValueOf(lines))

\* C4 witness: "B) False" before "A) True" with "Answer:A": True scores 100
C4_Witness ==
  /\ Shown
  /\ \E k \in 1..Len(all_qs) :
       /\ all_qs[k].kind = "list"
       /\ Len(all_qs[k].rows) = 3
       /\ all_qs[k].rows[2].answer = <<"B", ")", " ", "F", "a", "l", "s", "e">>
       /\ all_qs[k].rows[2].score = 0
       /\ all_qs[k].rows[3].answer = <<"A", ")", " ", "T", "r", "u", "e">>
       /\ all_qs[k].rows[3].score = 100

\* C5 (as claimed): the j-th choice of a question carries the j-th letter as
\* its label and scores 100 exactly when that letter is the answer value.
C5_Original ==
  Shown =>
    \A k \in 1..Len(all_qs) :
      LET lines == LinesOf(blocks[k])
          L == LetteredIdx(lines)
      IN  (all_qs[k].kind = "list" /\ L # {}) =>
            \A j \in 1..Cardinality(L) :
              all_qs[k].rows[1 + j].score = 100
                <=> Upper(ValueOf(lines)) = <<UpperLetters[j]>>

\* C5 (amended): the label of a choice is the letter written at the start of
\* its line, upper-cased, whatever its position; a choice scores 100 exactly
\* when that letter equals the upper-cased answer value and 0 otherwise.
\* When the written letters are A, B, C, ... in order this is the positional
\* labelling.
C5_WrittenLabel ==
  Shown =>
    \A k \in 1..Len(all_qs) :
      LET lines == LinesOf(blocks[k])
          L == LetteredIdx(lines)
          written(j) == UpperChar(lines[Nth(L, j)][1])
      IN  (all_qs[k].kind = "list" /\ L # {}) =>
            /\ \A j \in 1..Cardinality(L) :
                 /\ all_qs[k].rows[1 + j].answer = Strip(lines[Nth(L, j)])
                 /\ all_qs[k].rows[1 + j].score \in {0, 100}
                 /\ all_qs[k].rows[1 + j].score = 100
                      <=> Upper(ValueOf(lines)) = <<written(j)>>
            /\ (\A j \in 1..Cardinality(L) : written(j) = UpperLetters[j]) =>
                 \A j \in 1..Cardinality(L) :
                   all_qs[k].rows[1 + j].score = 100
                     <=> Upper(ValueOf(lines)) = <<UpperLetters[j]>>

\* C5 witness: "B)y" before "A)x" with "Answer:A": the second choice scores
C5_Witness ==
  /\ Shown
  /\ \E k \in 1..Len(all_qs) :
       /\ all_qs[k].kind = "list"
       /\ Len(all_qs[k].rows) = 3
       /\ all_qs[k].rows[2] = Row(<<>>, 0, <<"B", ")", "y">>)
       /\ all_qs[k].rows[3] = Row(<<>>, 100, <<"A", ")", "x">>)

\* C6: a first line made of digits, one of '.', ')' or '-', optional
\* whitespace and text is never rejected as an invalid format, and its text,
\* trimmed, is the stem of the first row; a block whose first line has no
\* such number is an error record "Invalid question format" with no rows.
C6_StemExtraction ==
  Shown =>
    /\ \A k \in 1..Len(all_qs) :
         LET lines == LinesOf(blocks[k])
         IN  IF IsNumbered(lines[1])
               THEN /\ all_qs[k].reason # InvalidFormat
                    /\ all_qs[k].kind = "list" =>
                         all_qs[k].rows[1] = Row(StemOf(lines[1]), NoScore, <<>>)
               ELSE /\ all_qs[k].kind = "tuple"
                    /\ all_qs[k].reason = InvalidFormat
                    /\ all_qs[k].block = blocks[k]
                    /\ all_qs[k].rows = <<>>
    /\ (\A k \in 1..Len(blocks) : ~IsNumbered(LinesOf(blocks[k])[1])) => rows = <<>>

\* C6 witness: "2) Q" gives the stem "Q"
C6_Witness ==
  /\ Shown
  /\ \E k \in 1..Len(all_qs) :
       /\ LinesOf(blocks[k])[1] = <<"2", ")", " ", "Q">>
       /\ all_qs[k].kind = "list"
       /\ rows[1] = Row(<<"Q">>, NoScore, <<>>)

CouldNotExtract == "Could not extract answer"

\* C7: a row group comes only from a block with an answer line that carries
\* a value; a numbered block without an answer line is an error record
\* "Missing answer line", and one whose answer line carries no value is an
\* error record "Could not extract answer" and gives no row of score 100.
C7_AnswerRequired ==
  Shown =>
    \A k \in 1..Len(all_qs) :
      LET lines == LinesOf(blocks[k])
          loose == {j \in 1..Len(lines) : HasLooseMarker(lines[j])}
          value(j) == Strip(SubSeq(lines[j], 8, Len(lines[j])))
      IN  /\ all_qs[k].kind = "list" => \E j \in loose : value(j) # <<>>
          /\ (IsNumbered(lines[1]) /\ loose = {}) =>
               all_qs[k].kind = "tuple" /\ all_qs[k].reason = MissingAnswer
          /\ (IsNumbered(lines[1]) /\ loose # {} /\ \A j \in loose : value(j) = <<>>) =>
               /\ all_qs[k].kind = "tuple"
               /\ all_qs[k].reason = CouldNotExtract
               /\ Hundreds(all_qs[k].rows) = {}

TooFewLines == "Too few lines"

\* the lines of a block that hold more than whitespace
NonEmptyCount(lines) == Cardinality({j \in 1..Len(lines) : Strip(lines[j]) # <<>>})

\* C8 (as claimed): every block with fewer than 3 non-empty lines is an
\* error record "Too few lines" and gives no rows.
C8_Original ==
  Shown =>
    \A k \in 1..Len(all_qs) :
      NonEmptyCount(LinesOf(blocks[k])) < 3 =>
        /\ all_qs[k].kind = "tuple"
        /\ all_qs[k].reason = TooFewLines
        /\ all_qs[k].rows = <<>>

\* C8 (amended): a block with fewer than 3 non-empty lines is an error
\* record "Invalid question format" or "Missing answer line" with no rows,
\* unless it is made of a numbered first line and an "answer:" line: that
\* block is a fill-in-the-blank row group (stem row, answer row of score 100).
C8_ShortBlocks ==
  Shown =>
    \A k \in 1..Len(all_qs) :
      LET lines == LinesOf(blocks[k])
          n == NonEmptyCount(lines)
          fill == n = 2 /\ IsNumbered(lines[1]) /\ HasMarker(lines[Len(lines)])
      IN  n < 3 =>
            IF fill
              THEN /\ all_qs[k].kind = "list"
                   /\ all_qs[k].rows =
                        <<Row(StemOf(lines[1]), NoScore, <<>>), Row(<<>>, 100, ValueOf(lines))>>
              ELSE /\ all_qs[k].kind = "tuple"
                   /\ all_qs[k].reason =
                        IF IsNumbered(lines[1]) THEN MissingAnswer ELSE InvalidFormat
                   /\ all_qs[k].block = blocks[k]
                   /\ all_qs[k].rows = <<>>

\* C8 witness: a one-line block rejected, a two-line block exported
C8_Witness ==
  /\ Shown
  /\ \E j, k \in 1..Len(all_qs) :
       /\ Len(LinesOf(blocks[j])) = 1
       /\ all_qs[j].kind = "tuple"
       /\ Len(LinesOf(blocks[k])) = 2
       /\ all_qs[k].kind = "list"
       /\ rows = all_qs[k].rows

IsPrefix(s, t) == Len(s) <= Len(t) /\ SubSeq(t, 1, Len(s)) = s

\* C9: a re-parse of an errored block appends the row groups of the
\* corrected text to the accepted set (nothing when the text is still
\* invalid), removes and reorders nothing, and keeps the error list.
C9_RecoveryAppends ==
  [][trigger'.widget = "fix" =>
       /\ valid_qs' = valid_qs \o ListsOf(parse_questions(trigger'.text))
       /\ IsPrefix(error_blocks, error_blocks')]_vars

\* the trimmed non-empty lines of a text, in order
TrimmedLines(text) ==
  LET ls == Split(text, <<NL>>)
      t == [k \in 1..Len(ls) |-> Strip(ls[k])]
  IN  SelectSeq(t, LAMBDA l : l # <<>>)

RECURSIVE TrimmedLinesOfAll(_)
TrimmedLinesOfAll(bs) ==
  IF bs = <<>> THEN <<>> ELSE TrimmedLines(bs[1]) \o TrimmedLinesOfAll(Tail(bs))

\* C10: the blocks hold the lines of the input, each line once and in input
\* order, and every line of every block is non-empty and trimmed.
C10_Segmentation ==
  Shown =>
    /\ TrimmedLinesOfAll(blocks) = TrimmedLines(raw_text)
    /\ \A k \in 1..Len(blocks) :
         /\ blocks[k] # <<>>
         /\ \A j \in 1..Len(LinesOf(blocks[k])) :
              LET l == LinesOf(blocks[k])[j]
              IN  l # <<>> /\ Strip(l) = l

====
